---- MODULE Spec2Model ----
(***************************************************************************)
(* Fleet Management System (src/javascriptcode.js): the in-memory vehicle  *)
(* registry, the per-vehicle telemetry arrays, the alert map and the       *)
(* Express handlers that read and write them.  One action per HTTP request;*)
(* a request is routed to the first registered route that matches it.      *)
(***************************************************************************)
EXTENDS Integers, Sequences, FiniteSets, TLC

\* ---------------------------------------------------------------- bounds
MaxUuid == 3
MaxClock == 1
MaxBatch == 2
MaxPending == 2
MaxReadings == 4

\* ------------------------------------------------------- JavaScript values
\* A JSON/JavaScript value: a number, a string, null, or undefined (a key
\* that the request body does not carry).
JsNum(i) == [t |-> "number", n |-> i, s |-> ""]
JsStr(x) == [t |-> "string", n |-> 0, s |-> x]
JsNull == [t |-> "null", n |-> 0, s |-> ""]
JsUndefined == [t |-> "undefined", n |-> 0, s |-> ""]

\* ToNumber of the ECMAScript relational comparison: null is 0, undefined
\* is NaN, a number is itself; the empty string is 0 and the other strings
\* of this model are not numeric (NaN).
ToNumber(v) ==
  CASE v.t = "number" -> [nan |-> FALSE, n |-> v.n]
    [] v.t = "null" -> [nan |-> FALSE, n |-> 0]
    [] v.t = "string" /\ v.s = "" -> [nan |-> FALSE, n |-> 0]
    [] OTHER -> [nan |-> TRUE, n |-> 0]

\* a < b and a > b for a JavaScript value a and a numeric literal b: false
\* whenever ToNumber(a) is NaN.
JsLess(a, b) == ~ToNumber(a).nan /\ ToNumber(a).n < b
JsGreater(a, b) == ~ToNumber(a).nan /\ ToNumber(a).n > b

\* a !== null
JsNotNull(a) == a.t # "null"

\* ToBoolean, as used by `if (req.body.status)`.
Truthy(v) ==
  CASE v.t = "number" -> v.n # 0
    [] v.t = "string" -> v.s # ""
    [] OTHER -> FALSE

\* ------------------------------------------------------------ input sets
\* VINs accepted by validateVIN (17 characters), abbreviated.
VINs == {"VIN1", "VIN2"}
\* A path segment of a request: a VIN or the literal word of the batch route.
Segments == VINs \cup {"batch"}

SpeedValues == {JsNum(80), JsNum(85)}
FuelValues == {JsNull}
BatteryValues == {JsUndefined}
\* req.body of a telemetry submission.
Bodies == [speed : SpeedValues, fuelLevel : FuelValues, batteryLevel : BatteryValues]
\* One element of req.body.records of a batch submission.
BatchRecords == [vin : VINs, speed : {JsNum(85)}, fuelLevel : {JsNull},
                 batteryLevel : {JsNum(10)}]
\* req.body.status of an alert update: absent, empty, a status of the
\* enumeration, or another string.
StatusValues == {JsUndefined, JsStr(""), JsStr("Active"), JsStr("Acknowledged"),
                 JsStr("Resolved"), JsStr("Bogus")}
\* The values of it that the full system is explored with.
SomeStatusValues == {JsUndefined, JsStr("Acknowledged"), JsStr("Bogus")}
\* req.query.limit and req.query.offset: absent, or a string of digits.
QueryNumbers == {JsUndefined, JsStr("1")}
\* req.query of an alert listing: each filter absent or a string.
AlertQueries == [vin : {JsUndefined, JsStr("VIN1")}, type : {JsUndefined},
                 severity : {JsUndefined}, status : {JsUndefined}]
\* The same with every filter in use.
AnyAlertQueries == [vin : {JsUndefined, JsStr("VIN1"), JsStr("VIN2")},
                    type : {JsUndefined, JsStr("LOW_FUEL")},
                    severity : {JsUndefined, JsStr("High")},
                    status : {JsUndefined, JsStr("Active")}]
\* The clock advances 0 or 1 between two readings of it.
Advances == {0, 1}
\* The advances before the new Date() of a TelemetryRecord (ds[1]) and of the
\* alerts of the three rules (ds[2..4]); a rule that does not fire reads no clock.
ClockReads(fires) ==
  {ds \in [1..4 -> Advances] : \A k \in 1..3 : ~fires[k] => ds[k + 1] = 0}

\* process.env as far as rule thresholds go: a setting is a number or unset.
\* The program reads PORT and NODE_ENV from it and nothing else.
Settings(limits, levels) ==
  [speedLimit : limits, lowFuelThreshold : levels, lowBatteryThreshold : levels]
NoEnv == [speedLimit |-> JsUndefined, lowFuelThreshold |-> JsUndefined,
          lowBatteryThreshold |-> JsUndefined]

\* ----------------------------------------------------------------- state
VARIABLES
  vehicles,       \* Map VIN -> Vehicle
  telemetryData,  \* Map VIN -> Array of TelemetryRecord
  alerts,         \* Map id -> Alert, as the sequence of its values in insertion order
  uuid,           \* number of identifiers uuidv4() has handed out
  now,            \* the clock read by new Date()
  res,            \* the response to the last request
  ingested,       \* history: per VIN, the readings stored by successful ingests since its creation
  inbox,          \* telemetry submissions received and not yet handled
  env             \* process.env: the settings the process was started with

vars == <<vehicles, telemetryData, alerts, uuid, now, res, ingested, inbox, env>>

\* ------------------------------------------------------------------ Maps
EmptyMap == [k \in {} |-> 0]
Has(m, k) == k \in DOMAIN m
MapSet(m, k, v) == [x \in (DOMAIN m) \cup {k} |-> IF x = k THEN v ELSE m[x]]
MapDelete(m, k) == [x \in (DOMAIN m) \ {k} |-> m[x]]

\* alerts.get(id): the position of the alert with this id, 0 if absent.
AlertIndex(al, id) ==
  IF \E i \in 1..Len(al) : al[i].id = id
  THEN CHOOSE i \in 1..Len(al) : al[i].id = id
  ELSE 0

\* ------------------------------------------------------------- responses
Response(route, status, success, data) ==
  [route |-> route, status |-> status, success |-> success, data |-> data,
   alerts |-> <<>>, total |-> 0]
NoResponse == Response("none", 0, FALSE, <<>>)
NotFound(route, message) == Response(route, 404, FALSE, message)

Init ==
  /\ vehicles = EmptyMap
  /\ telemetryData = EmptyMap
  /\ alerts = <<>>
  /\ uuid = 0
  /\ now = 0
  /\ res = NoResponse
  /\ ingested = EmptyMap
  /\ inbox = <<>>
  /\ env = NoEnv

\* --------------------------------------------------------------- classes
\* A Vehicle without its createdAt and updatedAt dates, which nothing reads.
Vehicle(vin, body) ==
  [vin |-> vin, manufacturer |-> body.manufacturer, model |-> body.model,
   fleetId |-> body.fleetId, owner |-> body.owner,
   registrationStatus |-> body.registrationStatus]

TelemetryRecord(id, vin, body, ts) ==
  [id |-> id, vin |-> vin, speed |-> body.speed, fuelLevel |-> body.fuelLevel,
   batteryLevel |-> body.batteryLevel, timestamp |-> ts]

Alert(id, vin, type, message, severity, ts) ==
  [id |-> id, vin |-> vin, type |-> type, message |-> message,
   severity |-> severity, timestamp |-> ts, status |-> JsStr("Active")]

\* The speed rule firing at the limit itself, and the fuel rule without
\* its null check.
SpeedRuleAtLimit(telemetry) == ~JsLess(telemetry.speed, 80) /\ ~ToNumber(telemetry.speed).nan
FuelRuleUnchecked(telemetry) == JsLess(telemetry.fuelLevel, 15)

\* The three rule conditions of generateAlerts.
SpeedRule(telemetry) == JsGreater(telemetry.speed, 80)
FuelRule(telemetry) == JsNotNull(telemetry.fuelLevel) /\ JsLess(telemetry.fuelLevel, 15)
BatteryRule(telemetry) == JsNotNull(telemetry.batteryLevel) /\ JsLess(telemetry.batteryLevel, 15)

\* A block that returns its alert without storing it in the map.
AlertBlockNotRecorded(g, fires, telemetry, type, text, value, severity, d) ==
  IF fires
  THEN LET a == Alert(g.uuid + 1, telemetry.vin, type,
                      <<telemetry.vin, text, value>>, severity, g.now + d)
       IN [alerts |-> g.alerts, generated |-> Append(g.generated, a),
           uuid |-> g.uuid + 1, now |-> g.now + d]
  ELSE g

\* One `if (...) { new Alert; alerts.set; alertsGenerated.push }` block of
\* generateAlerts, applied to the state g = [alerts, generated, uuid, now];
\* d is how far the clock moved before this block's new Date().
AlertBlock(g, fires, telemetry, type, text, value, severity, d) ==
  IF fires
  THEN LET a == Alert(g.uuid + 1, telemetry.vin, type,
                      <<telemetry.vin, text, value>>, severity, g.now + d)
       IN [alerts |-> Append(g.alerts, a), generated |-> Append(g.generated, a),
           uuid |-> g.uuid + 1, now |-> g.now + d]
  ELSE g

\* generateAlerts(telemetry), started with the alert map al, the uuid
\* counter u and the clock clk; ds[1..3] are the clock advances.
generateAlerts(telemetry, al, u, clk, ds) ==
  LET g0 == [alerts |-> al, generated |-> <<>>, uuid |-> u, now |-> clk]
      g1 == AlertBlock(g0, SpeedRule(telemetry), telemetry, "SPEED_VIOLATION",
                       "exceeded speed limit", telemetry.speed, "High", ds[1])
      g2 == AlertBlock(g1, FuelRule(telemetry), telemetry, "LOW_FUEL",
                       "has low fuel", telemetry.fuelLevel, "Medium", ds[2])
      g3 == AlertBlock(g2, BatteryRule(telemetry), telemetry, "LOW_BATTERY",
                       "has low battery", telemetry.batteryLevel, "Medium", ds[3])
  IN g3

\* ------------------------------------------------------------- routing
\* app.METHOD(path, handler) in registration order.
Routes == <<
  [method |-> "POST",   path |-> <<"vehicles">>,                     handler |-> "createVehicle"],
  [method |-> "GET",    path |-> <<"vehicles">>,                     handler |-> "listVehicles"],
  [method |-> "GET",    path |-> <<"vehicles", ":vin">>,             handler |-> "getVehicle"],
  [method |-> "PUT",    path |-> <<"vehicles", ":vin">>,             handler |-> "updateVehicle"],
  [method |-> "DELETE", path |-> <<"vehicles", ":vin">>,             handler |-> "deleteVehicle"],
  [method |-> "POST",   path |-> <<"telemetry", ":vin">>,            handler |-> "postTelemetry"],
  [method |-> "POST",   path |-> <<"telemetry", "batch">>,           handler |-> "postBatch"],
  [method |-> "GET",    path |-> <<"telemetry", ":vin">>,            handler |-> "getHistory"],
  [method |-> "GET",    path |-> <<"telemetry", ":vin", "latest">>,  handler |-> "getLatest"],
  [method |-> "GET",    path |-> <<"alerts">>,                       handler |-> "listAlerts"],
  [method |-> "GET",    path |-> <<"alerts", ":alertId">>,           handler |-> "getAlert"],
  [method |-> "PUT",    path |-> <<"alerts", ":alertId">>,           handler |-> "updateAlert"],
  [method |-> "GET",    path |-> <<"health">>,                       handler |-> "health"] >>

IsParam(seg) == seg \in {":vin", ":alertId"}

\* Express matches a request against a route: same method, same number of
\* segments, and every literal segment equal; a parameter matches any segment.
RouteMatches(r, method, path) ==
  /\ r.method = method
  /\ Len(r.path) = Len(path)
  /\ \A i \in 1..Len(path) : IsParam(r.path[i]) \/ r.path[i] = path[i]

\* The handler that answers a request: the first matching route, else the
\* 404 handler registered last.
Dispatch(method, path) ==
  IF \E i \in 1..Len(Routes) : RouteMatches(Routes[i], method, path)
  THEN LET first == CHOOSE i \in 1..Len(Routes) :
                      /\ RouteMatches(Routes[i], method, path)
                      /\ \A j \in 1..(i-1) : ~RouteMatches(Routes[j], method, path)
       IN Routes[first].handler
  ELSE "routeNotFound"

\* ------------------------------------------------------ array operations
\* An insertion that puts an element before the elements of its timestamp.
InsertByTimestampBeforeTies(sorted, x) ==
  LET k == Cardinality({i \in 1..Len(sorted) : sorted[i].timestamp > x.timestamp})
  IN SubSeq(sorted, 1, k) \o <<x>> \o SubSeq(sorted, k + 1, Len(sorted))

\* Array.prototype.sort((a, b) => new Date(b.timestamp) - new Date(a.timestamp)):
\* a stable sort into non-increasing timestamp order.
InsertByTimestamp(sorted, x) ==
  LET k == Cardinality({i \in 1..Len(sorted) : sorted[i].timestamp >= x.timestamp})
  IN SubSeq(sorted, 1, k) \o <<x>> \o SubSeq(sorted, k + 1, Len(sorted))

\* A sort that leaves the array as it is.
SortLeavesOrder(arr) == arr

RECURSIVE SortNewestFirst(_)
SortNewestFirst(arr) ==
  IF Len(arr) <= 1 THEN arr
  ELSE InsertByTimestamp(SortNewestFirst(SubSeq(arr, 1, Len(arr) - 1)), arr[Len(arr)])

Min(a, b) == IF a < b THEN a ELSE b

\* parseInt of a query-string value that is a string of digits.
ParseInt(v) ==
  CASE v.s = "0" -> 0
    [] v.s = "1" -> 1
    [] v.s = "2" -> 2
    [] v.s = "3" -> 3

\* arr.slice(start) and arr.slice(0, end) for non-negative integers.
SliceFrom(arr, start) == SubSeq(arr, start + 1, Len(arr))
SliceTo(arr, end) == SubSeq(arr, 1, Min(end, Len(arr)))

\* ------------------------------------------------------------ validation
\* The length of a path segment or VIN string: the VINs stand for
\* 17-character strings, "batch" has 5 characters.
StringLength(x) == IF x \in VINs THEN 17 ELSE 5
validateVIN(vin) == StringLength(vin) = 17

\* req.body of a vehicle creation: the sample vehicle with the given VIN.
VehicleBody(vin) ==
  [vin |-> vin, manufacturer |-> "Tesla", model |-> "Model S",
   fleetId |-> "Corporate", owner |-> "John Doe", registrationStatus |-> "Active"]

\* -------------------------------------------------------------- handlers
\* POST /api/vehicles
createVehicle(body) ==
  IF ~validateVIN(body.vin)
  THEN /\ res' = Response("createVehicle", 400, FALSE, "VIN must be a 17-character string")
       /\ UNCHANGED <<vehicles, telemetryData, alerts, uuid, now, ingested>>
  ELSE IF Has(vehicles, body.vin)
  THEN /\ res' = Response("createVehicle", 409, FALSE, "Vehicle with this VIN already exists")
       /\ UNCHANGED <<vehicles, telemetryData, alerts, uuid, now, ingested>>
  ELSE LET vehicle == Vehicle(body.vin, body)
       IN /\ vehicles' = MapSet(vehicles, vehicle.vin, vehicle)
          /\ telemetryData' = MapSet(telemetryData, vehicle.vin, <<>>)
          /\ ingested' = MapSet(ingested, vehicle.vin, <<>>)
          /\ res' = Response("createVehicle", 201, TRUE, vehicle)
          /\ UNCHANGED <<alerts, uuid, now>>

\* Vehicle.update(updates): every key of updates that is an own key of the
\* vehicle and is not vin is overwritten.
VehicleUpdate(vehicle, updates) ==
  [key \in DOMAIN vehicle |->
     IF key # "vin" /\ key \in DOMAIN updates THEN updates[key] ELSE vehicle[key]]

\* req.body of a vehicle update: it names another VIN and a new owner.
UpdateBodies == [vin : {"VIN2"}, owner : {"Jane Roe"}]

\* const updateData = { ...req.body }; delete updateData.vin;
WithoutVin(body) == [key \in DOMAIN body \ {"vin"} |-> body[key]]

\* An update that copies every key of the body into the vehicle.
updateVehicleAssignsBody(vin, body) ==
  IF ~Has(vehicles, vin)
  THEN /\ res' = NotFound("updateVehicle", "Vehicle not found")
       /\ UNCHANGED <<vehicles, telemetryData, alerts, uuid, now, ingested>>
  ELSE LET vehicle == [key \in DOMAIN vehicles[vin] |->
                         IF key \in DOMAIN body THEN body[key] ELSE vehicles[vin][key]]
       IN /\ vehicles' = [vehicles EXCEPT ![vin] = vehicle]
          /\ res' = Response("updateVehicle", 200, TRUE, vehicle)
          /\ UNCHANGED <<telemetryData, alerts, uuid, now, ingested>>

\* PUT /api/vehicles/:vin
updateVehicle(vin, body) ==
  IF ~Has(vehicles, vin)
  THEN /\ res' = NotFound("updateVehicle", "Vehicle not found")
       /\ UNCHANGED <<vehicles, telemetryData, alerts, uuid, now, ingested>>
  ELSE LET vehicle == VehicleUpdate(vehicles[vin], WithoutVin(body))
       IN /\ vehicles' = [vehicles EXCEPT ![vin] = vehicle]
          /\ res' = Response("updateVehicle", 200, TRUE, vehicle)
          /\ UNCHANGED <<telemetryData, alerts, uuid, now, ingested>>

\* A deletion that leaves the telemetry array of the vehicle in the map.
deleteVehicleKeepsTelemetry(vin) ==
  IF ~Has(vehicles, vin)
  THEN /\ res' = NotFound("deleteVehicle", "Vehicle not found")
       /\ UNCHANGED <<vehicles, telemetryData, alerts, uuid, now, ingested>>
  ELSE /\ vehicles' = MapDelete(vehicles, vin)
       /\ ingested' = MapDelete(ingested, vin)
       /\ res' = Response("deleteVehicle", 200, TRUE, "Vehicle deleted successfully")
       /\ UNCHANGED <<telemetryData, alerts, uuid, now>>

\* A deletion that also removes the alerts of the vehicle.
deleteVehicleCascade(vin) ==
  IF ~Has(vehicles, vin)
  THEN /\ res' = NotFound("deleteVehicle", "Vehicle not found")
       /\ UNCHANGED <<vehicles, telemetryData, alerts, uuid, now, ingested>>
  ELSE /\ vehicles' = MapDelete(vehicles, vin)
       /\ telemetryData' = MapDelete(telemetryData, vin)
       /\ ingested' = MapDelete(ingested, vin)
       /\ alerts' = SelectSeq(alerts, LAMBDA a : a.vin # vin)
       /\ res' = Response("deleteVehicle", 200, TRUE, "Vehicle deleted successfully")
       /\ UNCHANGED <<uuid, now>>

\* DELETE /api/vehicles/:vin
deleteVehicle(vin) ==
  IF ~Has(vehicles, vin)
  THEN /\ res' = NotFound("deleteVehicle", "Vehicle not found")
       /\ UNCHANGED <<vehicles, telemetryData, alerts, uuid, now, ingested>>
  ELSE /\ vehicles' = MapDelete(vehicles, vin)
       /\ telemetryData' = MapDelete(telemetryData, vin)
       /\ ingested' = MapDelete(ingested, vin)
       /\ res' = Response("deleteVehicle", 200, TRUE, "Vehicle deleted successfully")
       /\ UNCHANGED <<alerts, uuid, now>>

\* A store that keeps only the reading it was given last.
StoreAndEvaluateOverwrite(w, vin, body, ds) ==
  LET telemetry == TelemetryRecord(w.uuid + 1, vin, body, w.now + ds[1])
      g == generateAlerts(telemetry, w.alerts, w.uuid + 1, w.now + ds[1],
                          <<ds[2], ds[3], ds[4]>>)
  IN [telemetryData |-> MapSet(w.telemetryData, vin, <<telemetry>>),
      alerts |-> g.alerts, uuid |-> g.uuid, now |-> g.now,
      ingested |-> [w.ingested EXCEPT ![vin] = Append(@, telemetry)],
      telemetry |-> telemetry, generated |-> g.generated]

\* new TelemetryRecord; telemetryData.get(vin).push(telemetry);
\* generateAlerts(telemetry): the part the two ingest handlers share, as a
\* function of the state w = [telemetryData, alerts, uuid, now, ingested].
\* ds[1] is the clock advance before the record's timestamp, ds[2..4] those
\* before each alert's.
StoreAndEvaluate(w, vin, body, ds) ==
  LET telemetry == TelemetryRecord(w.uuid + 1, vin, body, w.now + ds[1])
      store == IF Has(w.telemetryData, vin) THEN w.telemetryData
               ELSE MapSet(w.telemetryData, vin, <<>>)
      pushed == [store EXCEPT ![vin] = Append(@, telemetry)]
      g == generateAlerts(telemetry, w.alerts, w.uuid + 1, w.now + ds[1],
                          <<ds[2], ds[3], ds[4]>>)
  IN [telemetryData |-> pushed, alerts |-> g.alerts, uuid |-> g.uuid, now |-> g.now,
      ingested |-> [w.ingested EXCEPT ![vin] = Append(@, telemetry)],
      telemetry |-> telemetry, generated |-> g.generated]

World == [telemetryData |-> telemetryData, alerts |-> alerts, uuid |-> uuid,
          now |-> now, ingested |-> ingested]

\* An ingest that stores the reading without asking the registry.
postTelemetryUnregistered(vin, body) ==
  \E ds \in ClockReads(<<SpeedRule(body), FuelRule(body), BatteryRule(body)>>) :
    LET known == IF Has(ingested, vin) THEN World
                 ELSE [World EXCEPT !.ingested = MapSet(ingested, vin, <<>>)]
        w == StoreAndEvaluate(known, vin, body, ds)
    IN /\ now + ds[1] + ds[2] + ds[3] + ds[4] <= MaxClock
       /\ uuid < MaxUuid
       /\ telemetryData' = w.telemetryData
       /\ alerts' = w.alerts
       /\ uuid' = w.uuid
       /\ now' = w.now
       /\ ingested' = w.ingested
       /\ res' = [Response("postTelemetry", 201, TRUE, w.telemetry)
                    EXCEPT !.alerts = w.generated]
       /\ UNCHANGED vehicles

\* POST /api/telemetry/:vin
postTelemetry(vin, body) ==
  IF ~Has(vehicles, vin)
  THEN /\ res' = NotFound("postTelemetry", "Vehicle not found")
       /\ UNCHANGED <<vehicles, telemetryData, alerts, uuid, now, ingested>>
  ELSE \E ds \in ClockReads(<<SpeedRule(body), FuelRule(body), BatteryRule(body)>>) :
       LET w == StoreAndEvaluate(World, vin, body, ds)
       IN /\ now + ds[1] + ds[2] + ds[3] + ds[4] <= MaxClock
          /\ uuid < MaxUuid
          /\ telemetryData' = w.telemetryData
          /\ alerts' = w.alerts
          /\ uuid' = w.uuid
          /\ now' = w.now
          /\ ingested' = w.ingested
          /\ res' = [Response("postTelemetry", 201, TRUE, w.telemetry)
                       EXCEPT !.alerts = w.generated]
          /\ UNCHANGED vehicles

\* telemetryRecords.forEach(record => ...) of the batch handler over
\* records[i..], accumulating results and allAlerts in acc.
RECURSIVE BatchLoop(_, _, _, _, _)
BatchLoop(acc, known, records, dss, i) ==
  IF i > Len(records) THEN acc
  ELSE LET record == records[i]
       IN IF Has(known, record.vin)
          THEN LET w == StoreAndEvaluate(acc.w, record.vin, record, dss[i])
               IN BatchLoop([w |-> [telemetryData |-> w.telemetryData, alerts |-> w.alerts,
                                    uuid |-> w.uuid, now |-> w.now, ingested |-> w.ingested],
                             results |-> Append(acc.results,
                                [vin |-> record.vin, success |-> TRUE,
                                 telemetry |-> <<w.telemetry>>, message |-> ""]),
                             allAlerts |-> acc.allAlerts \o w.generated],
                            known, records, dss, i + 1)
          ELSE BatchLoop([acc EXCEPT !.results = Append(@,
                                [vin |-> record.vin, success |-> FALSE,
                                 telemetry |-> <<>>, message |-> "Vehicle not found"])],
                         known, records, dss, i + 1)

\* POST /api/telemetry/batch
postBatch(body) ==
  IF ~body.isArray
  THEN /\ res' = Response("postBatch", 400, FALSE, "Records must be an array")
       /\ UNCHANGED <<vehicles, telemetryData, alerts, uuid, now, ingested>>
  ELSE \E dss \in [1..Len(body.records) -> ClockReads(<<TRUE, TRUE, TRUE>>)] :
       LET out == BatchLoop([w |-> World, results |-> <<>>, allAlerts |-> <<>>],
                            vehicles, body.records, dss, 1)
       IN /\ uuid < MaxUuid
          /\ out.w.now <= MaxClock
          /\ telemetryData' = out.w.telemetryData
          /\ alerts' = out.w.alerts
          /\ uuid' = out.w.uuid
          /\ now' = out.w.now
          /\ ingested' = out.w.ingested
          /\ res' = [Response("postBatch", 201, TRUE, out.results)
                       EXCEPT !.alerts = out.allAlerts, !.total = Len(out.allAlerts)]
          /\ UNCHANGED vehicles

\* A history that takes a limit or offset of 0 for an absent one.
HistoryZeroUnset(vin, query) ==
  LET stored == Has(telemetryData, vin)
      vehicleTelemetry == IF stored THEN telemetryData[vin] ELSE <<>>
      sorted == SortNewestFirst(vehicleTelemetry)
      skipped == IF Truthy(query.offset) /\ ParseInt(query.offset) # 0
                 THEN SliceFrom(sorted, ParseInt(query.offset)) ELSE sorted
      result == IF Truthy(query.limit) /\ ParseInt(query.limit) # 0
                THEN SliceTo(skipped, ParseInt(query.limit)) ELSE skipped
  IN [telemetryData |-> IF stored THEN [telemetryData EXCEPT ![vin] = sorted]
                        ELSE telemetryData,
      response |-> [Response("getHistory", 200, TRUE, result)
                      EXCEPT !.total = Len(vehicleTelemetry)]]

\* The body of the history handler for a known vehicle: the stored array
\* after sort() has sorted it in place (sort returns that same array), and
\* the slices taken from it.
History(vin, query) ==
  LET stored == Has(telemetryData, vin)
      vehicleTelemetry == IF stored THEN telemetryData[vin] ELSE <<>>
      sorted == SortNewestFirst(vehicleTelemetry)
      skipped == IF Truthy(query.offset)
                 THEN SliceFrom(sorted, ParseInt(query.offset)) ELSE sorted
      result == IF Truthy(query.limit)
                THEN SliceTo(skipped, ParseInt(query.limit)) ELSE skipped
  IN [telemetryData |-> IF stored THEN [telemetryData EXCEPT ![vin] = sorted]
                        ELSE telemetryData,
      response |-> [Response("getHistory", 200, TRUE, result)
                      EXCEPT !.total = Len(vehicleTelemetry)]]

\* GET /api/telemetry/:vin
getHistory(vin, query) ==
  IF ~Has(vehicles, vin)
  THEN /\ res' = NotFound("getHistory", "Vehicle not found")
       /\ UNCHANGED <<vehicles, telemetryData, alerts, uuid, now, ingested>>
  ELSE LET h == History(vin, query)
       IN /\ telemetryData' = h.telemetryData
          /\ res' = h.response
          /\ UNCHANGED <<vehicles, alerts, uuid, now, ingested>>

\* A latest that answers a vehicle without readings with an empty success.
LatestNullData(vin) ==
  IF ~Has(vehicles, vin)
  THEN NotFound("getLatest", "Vehicle not found")
  ELSE LET vehicleTelemetry == IF Has(telemetryData, vin) THEN telemetryData[vin] ELSE <<>>
       IN IF Len(vehicleTelemetry) > 0
          THEN Response("getLatest", 200, TRUE, vehicleTelemetry[Len(vehicleTelemetry)])
          ELSE Response("getLatest", 200, TRUE, <<>>)

\* The response of the latest handler.
Latest(vin) ==
  IF ~Has(vehicles, vin)
  THEN NotFound("getLatest", "Vehicle not found")
  ELSE LET vehicleTelemetry == IF Has(telemetryData, vin) THEN telemetryData[vin] ELSE <<>>
       IN IF Len(vehicleTelemetry) > 0
          THEN Response("getLatest", 200, TRUE, vehicleTelemetry[Len(vehicleTelemetry)])
          ELSE NotFound("getLatest", "No telemetry data found for this vehicle")

\* GET /api/telemetry/:vin/latest
getLatest(vin) ==
  /\ res' = Latest(vin)
  /\ UNCHANGED <<vehicles, telemetryData, alerts, uuid, now, ingested>>

\* a[field] as a JavaScript value: vin, type and severity are strings, the
\* status is whatever the last update stored.
FieldValue(a, field) == IF field = "status" THEN a.status ELSE JsStr(a[field])

\* alertList.filter(a => a[field] === value) when the query carries the field.
FilterBy(alertList, field, value) ==
  IF Truthy(value)
  THEN SelectSeq(alertList, LAMBDA a : FieldValue(a, field) = value)
  ELSE alertList

\* GET /api/alerts
listAlerts(query) ==
  LET byVin == FilterBy(alerts, "vin", query.vin)
      byType == FilterBy(byVin, "type", query.type)
      bySeverity == FilterBy(byType, "severity", query.severity)
      byStatus == FilterBy(bySeverity, "status", query.status)
      alertList == SortNewestFirst(byStatus)
  IN /\ res' = [Response("listAlerts", 200, TRUE, alertList) EXCEPT !.total = Len(alertList)]
     /\ UNCHANGED <<vehicles, telemetryData, alerts, uuid, now, ingested>>

\* GET /api/alerts/:alertId
getAlert(alertId) ==
  LET i == AlertIndex(alerts, alertId)
  IN /\ res' = IF i = 0 THEN NotFound("getAlert", "Alert not found")
               ELSE Response("getAlert", 200, TRUE, alerts[i])
     /\ UNCHANGED <<vehicles, telemetryData, alerts, uuid, now, ingested>>

\* An update that stores a new alert under an identifier it does not find.
updateAlertUpsert(alertId, body) ==
  LET i == AlertIndex(alerts, alertId)
      stub == [Alert(alertId, "", "", <<>>, "Medium", now) EXCEPT !.status = body.status]
  IN /\ alerts' = IF i = 0 THEN Append(alerts, stub) ELSE [alerts EXCEPT ![i].status = body.status]
     /\ res' = Response("updateAlert", 200, TRUE, IF i = 0 THEN stub ELSE alerts'[i])
     /\ UNCHANGED <<vehicles, telemetryData, uuid, now, ingested>>

\* An update that refuses to reopen a resolved alert.
updateAlertNoReopen(alertId, body) ==
  LET i == AlertIndex(alerts, alertId)
  IN IF i = 0
     THEN /\ res' = NotFound("updateAlert", "Alert not found")
          /\ UNCHANGED <<vehicles, telemetryData, alerts, uuid, now, ingested>>
     ELSE LET alert == IF Truthy(body.status) /\ alerts[i].status # JsStr("Resolved")
                       THEN [alerts[i] EXCEPT !.status = body.status]
                       ELSE alerts[i]
          IN /\ alerts' = [alerts EXCEPT ![i] = alert]
             /\ res' = Response("updateAlert", 200, TRUE, alert)
             /\ UNCHANGED <<vehicles, telemetryData, uuid, now, ingested>>

\* PUT /api/alerts/:alertId
updateAlert(alertId, body) ==
  LET i == AlertIndex(alerts, alertId)
  IN IF i = 0
     THEN /\ res' = NotFound("updateAlert", "Alert not found")
          /\ UNCHANGED <<vehicles, telemetryData, alerts, uuid, now, ingested>>
     ELSE LET alert == IF Truthy(body.status)
                       THEN [alerts[i] EXCEPT !.status = body.status]
                       ELSE alerts[i]
          IN /\ alerts' = [alerts EXCEPT ![i] = alert]
             /\ res' = Response("updateAlert", 200, TRUE, alert)
             /\ UNCHANGED <<vehicles, telemetryData, uuid, now, ingested>>

\* --------------------------------------------------------------- requests
\* The handler the router selects for each request of the model ("id"
\* stands for the path segment that carries an alert identifier).
PostVehiclesHandler == Dispatch("POST", <<"vehicles">>)
PutVehicleHandler == [vin \in VINs |-> Dispatch("PUT", <<"vehicles", vin>>)]
DeleteVehicleHandler == [vin \in VINs |-> Dispatch("DELETE", <<"vehicles", vin>>)]
PostTelemetryHandler == [segment \in Segments |-> Dispatch("POST", <<"telemetry", segment>>)]
GetTelemetryHandler == [vin \in VINs |-> Dispatch("GET", <<"telemetry", vin>>)]
GetLatestHandler == [vin \in VINs |-> Dispatch("GET", <<"telemetry", vin, "latest">>)]
GetAlertsHandler == Dispatch("GET", <<"alerts">>)
GetAlertHandler == Dispatch("GET", <<"alerts", "id">>)
PutAlertHandler == Dispatch("PUT", <<"alerts", "id">>)

\* req.body of a POST under /api/telemetry: the fields of one reading, or
\* a `records` array (isArray tells whether req.body.records is an array).
ReadingRequest(body) ==
  [speed |-> body.speed, fuelLevel |-> body.fuelLevel, batteryLevel |-> body.batteryLevel,
   isArray |-> FALSE, records |-> <<>>]
BatchRequest(records) ==
  [speed |-> JsUndefined, fuelLevel |-> JsUndefined, batteryLevel |-> JsUndefined,
   isArray |-> TRUE, records |-> records]

RECURSIVE SeqsUpTo(_, _)
SeqsUpTo(S, n) ==
  IF n = 0 THEN {<<>>}
  ELSE LET shorter == SeqsUpTo(S, n - 1)
       IN shorter \cup {Append(q, x) : q \in shorter, x \in S}

BatchBodies == {BatchRequest(r) : r \in SeqsUpTo(BatchRecords, MaxBatch)}
ReadingBodies == {ReadingRequest(b) : b \in Bodies}

\* A POST to /api/telemetry/<segment> with the given body, answered by the
\* handler the router selects.
PostTelemetryRequest(segment, body) ==
  LET handler == PostTelemetryHandler[segment]
  IN IF handler = "postTelemetry"
     THEN postTelemetry(segment, body)
     ELSE /\ handler = "postBatch"
          /\ postBatch(body)

PostVehicleRequest(vin) ==
  /\ PostVehiclesHandler = "createVehicle"
  /\ createVehicle(VehicleBody(vin))
  /\ UNCHANGED <<inbox, env>>

PutVehicleRequest(vin, body) ==
  /\ PutVehicleHandler[vin] = "updateVehicle"
  /\ updateVehicle(vin, body)
  /\ UNCHANGED <<inbox, env>>

PostVehicle ==
  \E vin \in Segments :
    /\ PostVehiclesHandler = "createVehicle"
    /\ createVehicle(VehicleBody(vin))
    /\ UNCHANGED <<inbox, env>>

PutVehicle ==
  \E vin \in VINs, body \in UpdateBodies :
    /\ PutVehicleHandler[vin] = "updateVehicle"
    /\ updateVehicle(vin, body)
    /\ UNCHANGED <<inbox, env>>

DeleteVehicle ==
  \E vin \in VINs :
    /\ DeleteVehicleHandler[vin] = "deleteVehicle"
    /\ deleteVehicle(vin)
    /\ UNCHANGED <<inbox, env>>

PostTelemetry ==
  \E vin \in VINs, body \in ReadingBodies :
    /\ PostTelemetryRequest(vin, body)
    /\ UNCHANGED <<inbox, env>>

PostTelemetryBatchRequest(body) ==
  /\ PostTelemetryRequest("batch", body)
  /\ UNCHANGED <<inbox, env>>

PostTelemetryBatch == \E body \in BatchBodies : PostTelemetryBatchRequest(body)

GetTelemetry ==
  \E vin \in VINs, limit \in QueryNumbers, offset \in QueryNumbers :
    /\ GetTelemetryHandler[vin] = "getHistory"
    /\ getHistory(vin, [limit |-> limit, offset |-> offset])
    /\ UNCHANGED <<inbox, env>>

GetLatestRequest(vin) ==
  /\ GetLatestHandler[vin] = "getLatest"
  /\ getLatest(vin)
  /\ UNCHANGED <<inbox, env>>

GetTelemetryLatest ==
  \E vin \in VINs :
    /\ GetLatestHandler[vin] = "getLatest"
    /\ getLatest(vin)
    /\ UNCHANGED <<inbox, env>>

GetAlerts ==
  \E query \in AlertQueries :
    /\ GetAlertsHandler = "listAlerts"
    /\ listAlerts(query)
    /\ UNCHANGED <<inbox, env>>

GetAlertRequest(alertId) ==
  /\ GetAlertHandler = "getAlert"
  /\ getAlert(alertId)
  /\ UNCHANGED <<inbox, env>>

\* The identifiers a request may name: those handed out and one more.
Uuids == 1..(MaxUuid + 1)

GetAlert == \E alertId \in Uuids : GetAlertRequest(alertId)

PutAlertRequest(alertId, status) ==
  /\ PutAlertHandler = "updateAlert"
  /\ updateAlert(alertId, [status |-> status])
  /\ UNCHANGED <<inbox, env>>

PutAlert == \E alertId \in Uuids, status \in SomeStatusValues : PutAlertRequest(alertId, status)

Next ==
  \/ PostVehicle
  \/ DeleteVehicle
  \/ PostTelemetry
  \/ PostTelemetryBatch
  \/ GetTelemetry
  \/ GetTelemetryLatest
  \/ GetAlerts
  \/ GetAlert
  \/ PutAlert

Spec == Init /\ [][Next]_vars

\* ------------------------------------------------ the telemetry store alone
\* The requests that create and delete vehicles and that write and read the
\* telemetry arrays.
NextStore ==
  \/ PostVehicle
  \/ DeleteVehicle
  \/ PostTelemetry
  \/ GetTelemetry
  \/ GetTelemetryLatest

SpecStore == Init /\ [][NextStore]_vars

\* ---------------------------------------------- the alert ledger as it fills
\* The requests that make alerts and that read and update single alerts.
NextLedger ==
  \/ PostVehicle
  \/ PostTelemetry
  \/ PutAlert
  \/ GetAlert

SpecLedger == Init /\ [][NextLedger]_vars

\* ------------------------------------------- alerts while vehicles change
\* Both vehicles are registered; then the requests that make and update
\* alerts, and those that update and delete the vehicles the alerts name.
Registered(vins) == [vin \in vins |-> Vehicle(vin, VehicleBody(vin))]

InitFleet ==
  /\ vehicles = Registered(VINs)
  /\ telemetryData = [vin \in VINs |-> <<>>]
  /\ alerts = <<>>
  /\ uuid = 0
  /\ now = 0
  /\ res = Response("createVehicle", 201, TRUE, Vehicle("VIN2", VehicleBody("VIN2")))
  /\ ingested = [vin \in VINs |-> <<>>]
  /\ inbox = <<>>
  /\ env = NoEnv

NextLifecycle ==
  \/ PutVehicle
  \/ DeleteVehicle
  \/ PostTelemetry
  \/ PutAlert

SpecLifecycle == InitFleet /\ [][NextLifecycle]_vars

\* ------------------------------------------------ the alert listing alone
\* Both vehicles are registered; readings on which the speed rule fires, or
\* the speed and the fuel rule; acknowledgements; listings with every filter.
ListedBodies == [speed : {JsNum(85)}, fuelLevel : {JsNull, JsNum(10)},
                 batteryLevel : {JsUndefined}]

PostTelemetryListed ==
  \E vin \in VINs, body \in ListedBodies :
    /\ PostTelemetryRequest(vin, ReadingRequest(body))
    /\ UNCHANGED <<inbox, env>>

GetAlertsRequest(query) ==
  /\ GetAlertsHandler = "listAlerts"
  /\ listAlerts(query)
  /\ UNCHANGED <<inbox, env>>

\* req.query of a listing: every filter absent or naming a value.
ListQueries == [vin : {JsUndefined, JsStr("VIN1")},
                type : {JsUndefined, JsStr("LOW_FUEL")},
                severity : {JsUndefined, JsStr("High")},
                status : {JsUndefined, JsStr("Active")}]

GetAlertsFiltered == \E query \in ListQueries : GetAlertsRequest(query)

PutAlertAcknowledged ==
  \E alertId \in Uuids : PutAlertRequest(alertId, JsStr("Acknowledged"))

NextListing ==
  \/ PostTelemetryListed
  \/ PutAlertAcknowledged
  \/ GetAlertsFiltered

SpecListing == InitFleet /\ [][NextListing]_vars

\* ---------------------------------------------- the history pages alone
\* Both vehicles are registered; readings on which no rule fires; history
\* queries with every limit and offset.
QuietBodies == [speed : {JsNum(80)}, fuelLevel : {JsNull}, batteryLevel : {JsUndefined}]

PostTelemetryQuiet ==
  \E vin \in VINs, body \in QuietBodies :
    /\ PostTelemetryRequest(vin, ReadingRequest(body))
    /\ UNCHANGED <<inbox, env>>

PageNumbers == {JsUndefined, JsStr("0"), JsStr("1"), JsStr("2")}
PageQueries == [limit : PageNumbers, offset : PageNumbers]

GetTelemetryRequest(vin, query) ==
  /\ GetTelemetryHandler[vin] = "getHistory"
  /\ getHistory(vin, query)
  /\ UNCHANGED <<inbox, env>>

GetTelemetryPage == \E vin \in VINs, query \in PageQueries : GetTelemetryRequest(vin, query)

NextPaging ==
  \/ PostTelemetryQuiet
  \/ GetTelemetryPage

SpecPaging == InitFleet /\ [][NextPaging]_vars

\* ------------------------------------- requests in flight at the same time
\* VIN1 is registered.  Clients send ingest, history and latest requests for
\* it without waiting for each other: up to MaxPending requests are in
\* flight, and the event loop takes any one of them and runs its handler,
\* which has no await in it, to its end before it takes the next.
InitConcurrent ==
  /\ vehicles = Registered({"VIN1"})
  /\ telemetryData = [vin \in {"VIN1"} |-> <<>>]
  /\ alerts = <<>>
  /\ uuid = 0
  /\ now = 0
  /\ res = Response("createVehicle", 201, TRUE, Vehicle("VIN1", VehicleBody("VIN1")))
  /\ ingested = [vin \in {"VIN1"} |-> <<>>]
  /\ inbox = <<>>
  /\ env = NoEnv

EmptyBody ==
  ReadingRequest([speed |-> JsUndefined, fuelLevel |-> JsUndefined,
                  batteryLevel |-> JsUndefined])
PendingRequests ==
  {[kind |-> "ingest", body |-> b] : b \in ReadingBodies}
    \cup {[kind |-> k, body |-> EmptyBody] : k \in {"history", "latest"}}

Receive ==
  /\ Len(inbox) < MaxPending
  /\ \E request \in PendingRequests : inbox' = Append(inbox, request)
  /\ UNCHANGED <<vehicles, telemetryData, alerts, uuid, now, res, ingested, env>>

Serve ==
  \E i \in 1..Len(inbox) :
    /\ CASE inbox[i].kind = "ingest" -> PostTelemetryRequest("VIN1", inbox[i].body)
         [] inbox[i].kind = "history" ->
              /\ GetTelemetryHandler["VIN1"] = "getHistory"
              /\ getHistory("VIN1", [limit |-> JsUndefined, offset |-> JsUndefined])
         [] inbox[i].kind = "latest" ->
              /\ GetLatestHandler["VIN1"] = "getLatest"
              /\ getLatest("VIN1")
    /\ inbox' = SubSeq(inbox, 1, i - 1) \o SubSeq(inbox, i + 1, Len(inbox))
    /\ UNCHANGED env

NextConcurrent ==
  \/ Receive
  \/ Serve

SpecConcurrent == InitConcurrent /\ [][NextConcurrent]_vars

\* ------------------------------------------- ingests into a filling ledger
\* Both vehicles are registered; readings on which no rule, the speed rule,
\* the two level rules or all three fire; acknowledgements of the alerts
\* made so far.
IngestBodies ==
  [speed : {JsNum(30), JsNum(85)}, fuelLevel : {JsUndefined}, batteryLevel : {JsNull}]
    \cup [speed : {JsNum(30), JsNum(85)}, fuelLevel : {JsNum(10)}, batteryLevel : {JsNum(10)}]

PostTelemetryAnyReading ==
  \E vin \in VINs, body \in IngestBodies :
    /\ PostTelemetryRequest(vin, ReadingRequest(body))
    /\ UNCHANGED <<inbox, env>>

NextIngest ==
  \/ PostTelemetryAnyReading
  \/ PutAlertAcknowledged

SpecIngest == InitFleet /\ [][NextIngest]_vars

\* ---------------------------------------------------- the registry alone
\* Vehicles are created, updated and deleted, and send readings on which no
\* rule fires.
NextVehicles ==
  \/ PostVehicle
  \/ PutVehicle
  \/ DeleteVehicle
  \/ PostTelemetryQuiet

SpecVehicles == Init /\ [][NextVehicles]_vars

\* ------------------------------------------- registry and telemetry map
\* The requests that add and remove keys of the two maps: vehicle creation
\* and deletion, single and batch ingest.
NextRegistry ==
  \/ PostVehicle
  \/ DeleteVehicle
  \/ PostTelemetry
  \/ PostTelemetryBatch

SpecRegistry == Init /\ [][NextRegistry]_vars

\* ------------------------------------------------- rule evaluation alone
\* One registered vehicle and one telemetry submission in flight, drawn from
\* the readings around the rule thresholds; the step handles it.
RuleSpeeds == {JsUndefined, JsNull, JsNum(0), JsNum(30), JsNum(79), JsNum(80), JsNum(81), JsNum(85)}
RuleLevels == {JsUndefined, JsNull, JsNum(0), JsNum(10), JsNum(14), JsNum(15), JsNum(16), JsNum(50)}
RuleBodies == [speed : RuleSpeeds, fuelLevel : RuleLevels, batteryLevel : RuleLevels]

InitRules ==
  /\ vehicles = MapSet(EmptyMap, "VIN1", Vehicle("VIN1", VehicleBody("VIN1")))
  /\ telemetryData = MapSet(EmptyMap, "VIN1", <<>>)
  /\ alerts = <<>>
  /\ uuid = 0
  /\ now = 0
  /\ res = Response("createVehicle", 201, TRUE, Vehicle("VIN1", VehicleBody("VIN1")))
  /\ ingested = MapSet(EmptyMap, "VIN1", <<>>)
  /\ inbox \in {<<ReadingRequest(b)>> : b \in RuleBodies}
  /\ env = NoEnv

HandleSubmission ==
  /\ inbox # <<>>
  /\ PostTelemetryRequest("VIN1", Head(inbox))
  /\ inbox' = Tail(inbox)
  /\ UNCHANGED env

NextRules == HandleSubmission

SpecRules == InitRules /\ [][NextRules]_vars

\* ------------------------------------------ rule evaluation under settings
\* The process was started with or without threshold settings; VIN1 is
\* registered and one telemetry submission is in flight.
Envs == Settings({JsUndefined, JsNum(100)}, {JsUndefined, JsNum(20)})
ConfigBodies == [speed : {JsNum(85), JsNum(101)}, fuelLevel : {JsUndefined, JsNum(10), JsNum(17)},
                 batteryLevel : {JsNull, JsNum(17)}]

InitConfig ==
  /\ vehicles = Registered({"VIN1"})
  /\ telemetryData = [vin \in {"VIN1"} |-> <<>>]
  /\ alerts = <<>>
  /\ uuid = 0
  /\ now = 0
  /\ res = Response("createVehicle", 201, TRUE, Vehicle("VIN1", VehicleBody("VIN1")))
  /\ ingested = [vin \in {"VIN1"} |-> <<>>]
  /\ inbox \in {<<ReadingRequest(b)>> : b \in ConfigBodies}
  /\ env \in Envs

NextConfig == HandleSubmission

SpecConfig == InitConfig /\ [][NextConfig]_vars

\* --------------------------------------------------- the alert ledger alone
\* The state after VIN1 was created and sent one reading on which the speed
\* and the fuel rule fired; from there, alert requests with every status value.
AfterCreate ==
  [telemetryData |-> MapSet(EmptyMap, "VIN1", <<>>), alerts |-> <<>>, uuid |-> 0,
   now |-> 0, ingested |-> MapSet(EmptyMap, "VIN1", <<>>)]
AfterIngest ==
  StoreAndEvaluate(AfterCreate, "VIN1",
                   [speed |-> JsNum(85), fuelLevel |-> JsNum(10), batteryLevel |-> JsUndefined],
                   <<0, 0, 0, 0>>)

InitAlerts ==
  /\ vehicles = MapSet(EmptyMap, "VIN1", Vehicle("VIN1", VehicleBody("VIN1")))
  /\ telemetryData = AfterIngest.telemetryData
  /\ alerts = AfterIngest.alerts
  /\ uuid = AfterIngest.uuid
  /\ now = AfterIngest.now
  /\ res = [Response("postTelemetry", 201, TRUE, AfterIngest.telemetry)
               EXCEPT !.alerts = AfterIngest.generated]
  /\ ingested = AfterIngest.ingested
  /\ inbox = <<>>
  /\ env = NoEnv

PutAlertAnyStatus ==
  \E alertId \in Uuids, status \in StatusValues : PutAlertRequest(alertId, status)

GetAlertsAnyQuery ==
  \E query \in AnyAlertQueries :
    /\ GetAlertsHandler = "listAlerts"
    /\ listAlerts(query)
    /\ UNCHANGED <<inbox, env>>

NextAlerts ==
  \/ PutAlertAnyStatus
  \/ GetAlert
  \/ GetAlertsAnyQuery

SpecAlerts == InitAlerts /\ [][NextAlerts]_vars

\* ------------------------------------------------------ fleet analytics
\* The README's Fleet Analytics (counts of active and inactive vehicles,
\* total distance travelled) has no code in src/javascriptcode.js; it is
\* written here from spec.md, sections 3 and 4.4.
\*
\* A reading as analytics sees it: spec.md section 3 gives it an odometer.
OdometerReading(vin, ts, odometer) == [vin |-> vin, timestamp |-> ts, odometer |-> odometer]

\* The readings with a timestamp in the trailing window, which ends now.
InWindow(readings, window) == SelectSeq(readings, LAMBDA r : r.timestamp >= now - window)

RECURSIVE SortOldestFirst(_)
SortOldestFirst(arr) ==
  IF Len(arr) <= 1 THEN arr
  ELSE LET sorted == SortOldestFirst(SubSeq(arr, 1, Len(arr) - 1))
           x == arr[Len(arr)]
           k == Cardinality({i \in 1..Len(sorted) : sorted[i].timestamp <= x.timestamp})
       IN SubSeq(sorted, 1, k) \o <<x>> \o SubSeq(sorted, k + 1, Len(sorted))

\* A distance that subtracts a falling odometer.
RECURSIVE DistanceSigned(_)
DistanceSigned(readings) ==
  IF Len(readings) <= 1 THEN 0
  ELSE (readings[2].odometer - readings[1].odometer) + DistanceSigned(Tail(readings))

\* The distance of one vehicle: the positive odometer deltas between
\* consecutive readings; a negative delta is skipped.
RECURSIVE Distance(_)
Distance(readings) ==
  IF Len(readings) <= 1 THEN 0
  ELSE LET delta == readings[2].odometer - readings[1].odometer
       IN (IF delta > 0 THEN delta ELSE 0) + Distance(Tail(readings))

RECURSIVE FleetDistance(_, _)
FleetDistance(vins, window) ==
  IF vins = {} THEN 0
  ELSE LET vin == CHOOSE v \in vins : TRUE
       IN Distance(SortOldestFirst(InWindow(telemetryData[vin], window)))
            + FleetDistance(vins \ {vin}, window)

\* totalDistance(window)
totalDistance(window) ==
  /\ res' = Response("totalDistance", 200, TRUE, FleetDistance(DOMAIN telemetryData, window))
  /\ UNCHANGED <<vehicles, telemetryData, alerts, uuid, now, ingested>>

\* activeInactiveCount(window): over the vehicles of the registry.
ActiveVehicles(window) ==
  {vin \in DOMAIN vehicles :
     Has(telemetryData, vin) /\ InWindow(telemetryData[vin], window) # <<>>}

\* A count that leaves out the vehicles that never sent a reading.
activeInactiveCountWithHistory(window) ==
  LET active == ActiveVehicles(window)
      heard == {vin \in DOMAIN vehicles : Has(telemetryData, vin) /\ telemetryData[vin] # <<>>}
  IN /\ res' = Response("activeInactiveCount", 200, TRUE,
                        [active |-> Cardinality(active),
                         inactive |-> Cardinality(heard \ active)])
     /\ UNCHANGED <<vehicles, telemetryData, alerts, uuid, now, ingested>>

activeInactiveCount(window) ==
  LET active == ActiveVehicles(window)
  IN /\ res' = Response("activeInactiveCount", 200, TRUE,
                        [active |-> Cardinality(active),
                         inactive |-> Cardinality(DOMAIN vehicles \ active)])
     /\ UNCHANGED <<vehicles, telemetryData, alerts, uuid, now, ingested>>

\* ------------------------------------------------- total distance alone
\* Both vehicles are registered and have sent readings with odometer values,
\* one per tick; the store holds them oldest first, or newest first as a
\* history query leaves them.
OdometerValues == {100, 120, 150, 200}
Reverse(seq) == [i \in 1..Len(seq) |-> seq[Len(seq) + 1 - i]]
Trip(vin, odometers) ==
  [i \in 1..Len(odometers) |-> OdometerReading(vin, i, odometers[i])]
Trips(vin, odometerSeqs) ==
  {Trip(vin, o) : o \in odometerSeqs} \cup {Reverse(Trip(vin, o)) : o \in odometerSeqs}
\* The trailing windows: the last tick, the last three, all.
Windows == {1, 3, MaxReadings}

InitDistance ==
  /\ vehicles = Registered(VINs)
  /\ \E first \in Trips("VIN1", SeqsUpTo(OdometerValues, MaxReadings)),
        second \in Trips("VIN2", {<<>>, <<100, 150>>, <<150, 100, 120>>}) :
       /\ telemetryData = [vin \in VINs |-> IF vin = "VIN1" THEN first ELSE second]
       /\ ingested = [vin \in VINs |-> IF vin = "VIN1" THEN first ELSE second]
  /\ alerts = <<>>
  /\ uuid = 0
  /\ now = MaxReadings
  /\ res = NoResponse
  /\ inbox = <<>>
  /\ env = NoEnv

GetTotalDistanceRequest(window) ==
  /\ totalDistance(window)
  /\ UNCHANGED <<inbox, env>>

GetTotalDistance == \E window \in Windows : GetTotalDistanceRequest(window)

NextDistance == GetTotalDistance

SpecDistance == InitDistance /\ [][NextDistance]_vars

\* ------------------------------------------------- vehicle activity alone
\* Vehicles are created and deleted and send readings on which no rule
\* fires; the counts are asked for the current tick and for the last two.
ActivityWindows == {0, 1}

GetActiveInactiveRequest(window) ==
  /\ activeInactiveCount(window)
  /\ UNCHANGED <<inbox, env>>

GetActiveInactive == \E window \in ActivityWindows : GetActiveInactiveRequest(window)

NextActivity ==
  \/ PostVehicle
  \/ DeleteVehicle
  \/ PostTelemetryQuiet
  \/ GetActiveInactive

SpecActivity == Init /\ [][NextActivity]_vars

\* ================================================================ claims
Range(seq) == {seq[i] : i \in 1..Len(seq)}
TimestampsIncreasing(seq) ==
  \A i \in 1..Len(seq), j \in 1..Len(seq) : i < j => seq[i].timestamp < seq[j].timestamp
TimestampsNonDecreasing(seq) ==
  \A i \in 1..Len(seq), j \in 1..Len(seq) : i < j => seq[i].timestamp <= seq[j].timestamp
TimestampsNonIncreasing(seq) ==
  \A i \in 1..Len(seq), j \in 1..Len(seq) : i < j => seq[i].timestamp >= seq[j].timestamp
NoQuery == [limit |-> JsUndefined, offset |-> JsUndefined]

\* C1: for every known vehicle whose readings R1..Rn (n >= 1) were ingested
\* with increasing timestamps, latest(v) succeeds and returns Rn, in every
\* reachable state, whatever requests were served in between.
C1_LatestIsLastIngested ==
  \A v \in DOMAIN vehicles :
    (Len(ingested[v]) >= 1 /\ TimestampsIncreasing(ingested[v]))
      => /\ Latest(v).status = 200
         /\ Latest(v).data = ingested[v][Len(ingested[v])]

\* C2: a history query without limit and offset returns exactly the readings
\* ingested for the vehicle since it was created, each once and none of
\* another vehicle, in non-increasing timestamp order; and every history
\* response is in that order and holds only ingested readings of one vehicle.
C2_HistoryAllNewestFirst ==
  /\ \A v \in DOMAIN vehicles :
       LET h == History(v, NoQuery).response.data
       IN /\ Len(h) = Len(ingested[v])
          /\ Range(h) = Range(ingested[v])
          /\ \A i \in 1..Len(h) : h[i].vin = v
          /\ TimestampsNonIncreasing(h)
  /\ (res.route = "getHistory" /\ res.status = 200)
       => /\ TimestampsNonIncreasing(res.data)
          /\ \A i \in 1..Len(res.data) :
               /\ res.data[i].vin = res.data[1].vin
               /\ res.data[i] \in Range(ingested[res.data[i].vin])

\* A history response with two readings of different timestamps, while a
\* reading of another vehicle was ingested between them.
C2_Witness ==
  /\ res.route = "getHistory" /\ res.status = 200 /\ Len(res.data) >= 2
  /\ res.data[1].timestamp > res.data[2].timestamp
  /\ \E w \in DOMAIN ingested : \E i \in 1..Len(ingested[w]) :
       /\ w # res.data[1].vin
       /\ res.data[2].id < ingested[w][i].id
       /\ ingested[w][i].id < res.data[1].id

\* C3: in every reachable state each vehicle's stored sequence is in
\* non-decreasing timestamp order and is the sequence of its ingested
\* readings in append order: nothing but an append changes it.
C3_StoredInAppendOrder ==
  \A v \in DOMAIN telemetryData :
    /\ TimestampsNonDecreasing(telemetryData[v])
    /\ telemetryData[v] = ingested[v]

\* C4: a batch submission of k records is answered with one result per
\* record in input order, success exactly for the records of known vehicles;
\* one reading is stored per successful record, and the returned alerts are
\* the alerts the request added to the ledger.
StoredCount(store) ==
  LET RECURSIVE Sum(_)
      Sum(S) == IF S = {} THEN 0
                ELSE LET v == CHOOSE x \in S : TRUE IN Len(store[v]) + Sum(S \ {v})
  IN Sum(DOMAIN store)

C4_BatchProcessedPerItem ==
  [][\A body \in BatchBodies :
       PostTelemetryBatchRequest(body) =>
         /\ res'.status = 201
         /\ Len(res'.data) = Len(body.records)
         /\ \A i \in 1..Len(body.records) :
              /\ res'.data[i].vin = body.records[i].vin
              /\ res'.data[i].success = Has(vehicles, body.records[i].vin)
         /\ StoredCount(telemetryData') = StoredCount(telemetryData)
              + Cardinality({i \in 1..Len(body.records) : Has(vehicles, body.records[i].vin)})
         /\ res'.alerts = SubSeq(alerts', Len(alerts) + 1, Len(alerts'))]_vars

\* C5: every alert of the ledger names a vehicle whose stored sequence still
\* holds the reading that produced the alert (the reading whose identifier
\* was handed out right before the identifiers of its alerts).
ProducedBy(a, r) ==
  /\ r.id < a.id
  /\ \A x \in (r.id + 1)..(a.id - 1) : \E b \in Range(alerts) : b.id = x

C5_NoOrphanAlerts ==
  \A a \in Range(alerts) :
    /\ Has(telemetryData, a.vin)
    /\ \E r \in Range(telemetryData[a.vin]) : ProducedBy(a, r)

\* C6: the alerts of a reading are exactly: SpeedViolation/High iff speed > 80,
\* LowFuel/Medium iff fuelLevel is present and < 15, LowBattery/Medium iff
\* batteryLevel is present and < 15, in this order, each at most once.
Present(v) == v.t = "number"
KindIf(cond, type, severity) ==
  IF cond THEN <<[type |-> type, severity |-> severity]>> ELSE <<>>
ExpectedKinds(r) ==
  KindIf(Present(r.speed) /\ r.speed.n > 80, "SPEED_VIOLATION", "High")
    \o KindIf(Present(r.fuelLevel) /\ r.fuelLevel.n < 15, "LOW_FUEL", "Medium")
    \o KindIf(Present(r.batteryLevel) /\ r.batteryLevel.n < 15, "LOW_BATTERY", "Medium")
KindsOf(list) == [i \in 1..Len(list) |-> [type |-> list[i].type, severity |-> list[i].severity]]

C6_RulesFireExactly ==
  (res.route = "postTelemetry" /\ res.status = 201)
    => /\ KindsOf(res.alerts) = ExpectedKinds(res.data)
       /\ alerts = res.alerts

\* All three rules fire on one reading.
C6_Witness ==
  /\ res.route = "postTelemetry" /\ res.status = 201
  /\ Len(res.alerts) = 3

\* C7: a reading without fuelLevel (null or omitted) gets no LowFuel alert and
\* a reading without batteryLevel no LowBattery alert, whatever its speed;
\* fuelLevel 10, no batteryLevel, speed 30 gets exactly one alert, LowFuel.
Absent(v) == v.t \in {"null", "undefined"}

C7_AbsenceIsNoViolation ==
  (res.route = "postTelemetry" /\ res.status = 201)
    => /\ Absent(res.data.fuelLevel) => \A a \in Range(alerts) : a.type # "LOW_FUEL"
       /\ Absent(res.data.batteryLevel) => \A a \in Range(alerts) : a.type # "LOW_BATTERY"
       /\ (res.data.fuelLevel = JsNum(10) /\ Absent(res.data.batteryLevel)
             /\ res.data.speed = JsNum(30))
            => (Len(res.alerts) = 1 /\ res.alerts[1].type = "LOW_FUEL")

\* fuelLevel 10, batteryLevel null, speed 30 was ingested.
C7_Witness ==
  /\ res.route = "postTelemetry" /\ res.status = 201
  /\ res.data.fuelLevel = JsNum(10) /\ res.data.batteryLevel = JsNull
  /\ res.data.speed = JsNum(30)
  /\ Len(res.alerts) = 1

\* C8: a status update for an identifier that is not in the ledger answers
\* 404 and changes neither the ledger nor the telemetry store nor the
\* registry; a get for such an identifier answers 404.
C8_AbsentAlertNotFound ==
  [][\A alertId \in Uuids :
       AlertIndex(alerts, alertId) = 0 =>
         /\ (\E status \in SomeStatusValues : PutAlertRequest(alertId, status))
              => /\ res'.status = 404 /\ res'.success = FALSE
                 /\ alerts' = alerts
                 /\ telemetryData' = telemetryData
                 /\ vehicles' = vehicles
         /\ GetAlertRequest(alertId)
              => (res'.status = 404 /\ res'.success = FALSE)]_vars

\* An update was refused while the ledger holds alerts.
C8_Witness ==
  /\ res.route = "updateAlert" /\ res.status = 404
  /\ Len(alerts) >= 1

\* C9: the status of every alert of the ledger is Active, Acknowledged or
\* Resolved, in every reachable state.
AlertStatuses == {JsStr("Active"), JsStr("Acknowledged"), JsStr("Resolved")}

C9_StatusEnumerated ==
  \A a \in Range(alerts) : a.status \in AlertStatuses

\* C10: updating the status of an alert of the ledger to Active, Acknowledged
\* or Resolved succeeds from every status, leaves that status in the alert,
\* and changes no other field of it and no other alert.
C10_UpdateSetsStatusOnly ==
  [][\A alertId \in Uuids, status \in AlertStatuses :
       (AlertIndex(alerts, alertId) # 0 /\ PutAlertRequest(alertId, status))
         => LET i == AlertIndex(alerts, alertId)
            IN /\ res'.status = 200 /\ res'.success
               /\ Len(alerts') = Len(alerts)
               /\ alerts'[i] = [alerts[i] EXCEPT !.status = status]
               /\ res'.data = alerts'[i]
               /\ \A j \in 1..Len(alerts) : j # i => alerts'[j] = alerts[j]]_vars

\* An alert was set back to Active while another alert of the ledger is
\* Resolved.
C10_Witness ==
  /\ res.route = "updateAlert" /\ res.status = 200
  /\ res.data.status = JsStr("Active")
  /\ \E a \in Range(alerts) : a.id # res.data.id /\ a.status = JsStr("Resolved")
  /\ \E a \in Range(alerts) : a.id = res.data.id /\ a.status = JsStr("Active")

\* C11: an ingest for a VIN the registry does not hold answers 404 and
\* changes nothing: no reading, no alert, no telemetry entry for that VIN.
\* An ingest for a known VIN appends exactly one reading, the returned one,
\* to that vehicle's array and leaves the other arrays and the registry alone.
C11_IngestAppendsOrRejects ==
  [][\A vin \in VINs, body \in ReadingBodies :
       (res'.route = "postTelemetry" /\ PostTelemetryRequest(vin, body)) =>
         IF ~Has(vehicles, vin)
         THEN /\ res'.status = 404 /\ ~res'.success
              /\ telemetryData' = telemetryData
              /\ alerts' = alerts
              /\ vehicles' = vehicles
              /\ ~Has(telemetryData', vin)
         ELSE /\ res'.status = 201 /\ res'.success
              /\ DOMAIN telemetryData' = DOMAIN telemetryData
              /\ telemetryData'[vin] = Append(telemetryData[vin], res'.data)
              /\ \A w \in DOMAIN telemetryData \ {vin} : telemetryData'[w] = telemetryData[w]
              /\ vehicles' = vehicles]_vars

\* An ingest was refused for a VIN that had sent a reading before it was
\* deleted, while the other vehicle's array and the ledger are not empty.
C11_Witness ==
  /\ res.route = "postTelemetry" /\ res.status = 404
  /\ \E v \in DOMAIN telemetryData : telemetryData[v] # <<>>
  /\ \E a \in Range(alerts) : ~Has(vehicles, a.vin)

\* C12: an alert of the ledger stays in it in every later step, at its
\* place and found by its id, with the same id, vin, type, message, severity
\* and timestamp; its status differs after a step only if the step is a
\* status update of that id; and no two alerts of the ledger share an id.
C12_AlertsStable ==
  [][/\ Len(alerts') >= Len(alerts)
     /\ \A i \in 1..Len(alerts) :
          /\ AlertIndex(alerts', alerts[i].id) = i
          /\ alerts'[i] = [alerts[i] EXCEPT !.status = alerts'[i].status]
          /\ alerts'[i].status # alerts[i].status
               => \E status \in SomeStatusValues : PutAlertRequest(alerts[i].id, status)
     /\ \A i, j \in 1..Len(alerts') : i # j => alerts'[i].id # alerts'[j].id]_vars

\* The ledger holds an acknowledged alert of a deleted vehicle and an
\* alert of a vehicle that was updated.
C12_Witness ==
  /\ \E a \in Range(alerts) : ~Has(vehicles, a.vin) /\ a.status = JsStr("Acknowledged")
  /\ \E a \in Range(alerts) : Has(vehicles, a.vin) /\ vehicles[a.vin].owner = "Jane Roe"

\* C13: a listing returns exactly the alerts of the ledger that agree with
\* every filter the query carries, each once, those of a later timestamp
\* first and those of one timestamp in the order the ledger received them;
\* the ledger is as before.
Matches(a, query) ==
  /\ query.vin # JsUndefined => JsStr(a.vin) = query.vin
  /\ query.type # JsUndefined => JsStr(a.type) = query.type
  /\ query.severity # JsUndefined => JsStr(a.severity) = query.severity
  /\ query.status # JsUndefined => a.status = query.status

C13_ListFiltersNewestFirst ==
  [][\A query \in ListQueries :
       (res'.route = "listAlerts" /\ GetAlertsRequest(query)) =>
         LET listed == res'.data
         IN /\ alerts' = alerts
            /\ \A a \in Range(alerts) : Matches(a, query) <=> a \in Range(listed)
            /\ Range(listed) \subseteq Range(alerts)
            /\ Len(listed) = Cardinality(Range(listed))
            /\ res'.total = Len(listed)
            /\ \A i, j \in 1..Len(listed) : i < j =>
                 \/ listed[i].timestamp > listed[j].timestamp
                 \/ /\ listed[i].timestamp = listed[j].timestamp
                    /\ AlertIndex(alerts, listed[i].id) < AlertIndex(alerts, listed[j].id)]_vars

\* A listing that left an alert of the ledger out and returned a later
\* alert before an earlier one.
C13_Witness ==
  /\ res.route = "listAlerts" /\ Len(res.data) = 2 /\ Len(alerts) = 3
  /\ res.data[1].timestamp > res.data[2].timestamp
  /\ res.data[1].id > res.data[2].id

\* C14: for a known vehicle with n readings, a history query with offset o
\* and limit l returns the elements o+1 .. o+l of the newest-first sequence
\* (the answer to the query without limit and offset), that is
\* min(l, max(0, n - o)) readings; an absent offset counts as 0, an absent
\* limit as unbounded, and a limit of 0 returns no reading.
NumberOf(v) == CHOOSE k \in 0..9 : v = JsStr(ToString(k))

C14_HistoryPage ==
  [][\A vin \in VINs, query \in PageQueries :
       (res'.route = "getHistory" /\ Has(vehicles, vin) /\ GetTelemetryRequest(vin, query)) =>
         LET newest == History(vin, NoQuery).response.data
             n == Len(newest)
             o == IF query.offset = JsUndefined THEN 0 ELSE NumberOf(query.offset)
             rest == IF n - o > 0 THEN n - o ELSE 0
             count == IF query.limit = JsUndefined THEN rest
                      ELSE Min(NumberOf(query.limit), rest)
         IN /\ res'.status = 200
            /\ res'.total = n
            /\ Len(res'.data) = count
            /\ \A i \in 1..count : res'.data[i] = newest[o + i]]_vars

\* A history query that returned none of the three readings of a vehicle:
\* the offsets of the model are below 3, so its limit was 0.
C14_Witness ==
  /\ res.route = "getHistory" /\ res.status = 200
  /\ res.total = 3 /\ Len(res.data) = 0

\* C15: for a known vehicle that has sent no reading since it was created,
\* history answers success with an empty sequence and latest answers 404
\* "No telemetry data found"; for a VIN the registry does not hold both
\* answer 404 "Vehicle not found"; and none of these requests changes the
\* registry, the telemetry arrays or the ledger.
NothingWritten == UNCHANGED <<vehicles, telemetryData, alerts, uuid, now, ingested>>

UnknownOrEmpty(vin) == ~Has(vehicles, vin) \/ ingested[vin] = <<>>

C15_EmptyAndUnknown ==
  [][\A vin \in VINs :
       /\ \A limit \in QueryNumbers, offset \in QueryNumbers :
            (res'.route = "getHistory" /\ UnknownOrEmpty(vin)
               /\ GetTelemetryRequest(vin, [limit |-> limit, offset |-> offset]))
              => /\ NothingWritten
                 /\ IF Has(vehicles, vin)
                    THEN res'.status = 200 /\ res'.success /\ res'.data = <<>>
                    ELSE /\ res'.status = 404 /\ ~res'.success
                         /\ res'.data = "Vehicle not found"
       /\ (res'.route = "getLatest" /\ UnknownOrEmpty(vin) /\ GetLatestRequest(vin))
            => /\ NothingWritten
               /\ res'.status = 404 /\ ~res'.success
               /\ res'.data = IF Has(vehicles, vin)
                              THEN "No telemetry data found for this vehicle"
                              ELSE "Vehicle not found"]_vars

\* Latest found no data while both vehicles are registered without readings
\* and a reading had been ingested: its vehicle was deleted and created again.
C15_Witness ==
  /\ res.route = "getLatest" /\ res.status = 404
  /\ res.data = "No telemetry data found for this vehicle"
  /\ DOMAIN vehicles = VINs
  /\ \A v \in VINs : telemetryData[v] = <<>>
  /\ uuid >= 1

\* C16: however the ingest, history and latest requests in flight for one
\* vehicle are interleaved, the vehicle's array holds the reading of every
\* successful ingest exactly once, as many readings as identifiers were
\* handed out to readings, and a history or latest response holds only
\* whole readings of ingests served before it, history all of them.
C16_NoLostUpdates ==
  /\ \A v \in DOMAIN vehicles :
       /\ Len(telemetryData[v]) = Len(ingested[v])
       /\ Range(telemetryData[v]) = Range(ingested[v])
       /\ Cardinality({r.id : r \in Range(telemetryData[v])}) = Len(telemetryData[v])
       /\ Len(telemetryData[v]) = uuid - Len(alerts)
  /\ (res.route = "getHistory" /\ res.status = 200)
       => /\ res.total = Len(ingested["VIN1"])
          /\ Len(res.data) = res.total
          /\ Range(res.data) = Range(ingested["VIN1"])
  /\ (res.route = "getLatest" /\ res.status = 200)
       => res.data \in Range(ingested["VIN1"])

\* A history request was served after two ingests while another ingest and
\* a latest request are still in flight.
C16_Witness ==
  /\ res.route = "getHistory" /\ Len(res.data) = 2
  /\ \E i \in 1..Len(inbox) : inbox[i].kind = "ingest"
  /\ \E i \in 1..Len(inbox) : inbox[i].kind = "latest"

\* C17: a successful ingest appends one reading, made from the request, to
\* the vehicle's array and returns it; the alerts it returns are exactly what
\* it appended to the ledger, in that order, and nothing else of the ledger
\* changed; each of them is Active, names the vehicle of the reading, and
\* was made after the reading (a later identifier, no earlier timestamp).
C17_IngestReturnsWhatItRecorded ==
  [][\A vin \in VINs, body \in IngestBodies :
       (res'.route = "postTelemetry" /\ res'.status = 201
          /\ PostTelemetryRequest(vin, ReadingRequest(body))) =>
         LET reading == res'.data
             returned == res'.alerts
         IN /\ telemetryData'[vin] = Append(telemetryData[vin], reading)
            /\ reading.vin = vin
            /\ reading.speed = body.speed
            /\ reading.fuelLevel = body.fuelLevel
            /\ reading.batteryLevel = body.batteryLevel
            /\ reading.id = uuid + 1
            /\ alerts' = alerts \o returned
            /\ uuid' = uuid + 1 + Len(returned)
            /\ \A i \in 1..Len(returned) :
                 /\ returned[i].status = JsStr("Active")
                 /\ returned[i].vin = vin
                 /\ returned[i].id = reading.id + i
                 /\ returned[i].timestamp >= reading.timestamp]_vars

\* An ingest returned two alerts and the ledger holds them behind an
\* acknowledged alert of an earlier ingest.
C17_Witness ==
  /\ res.route = "postTelemetry" /\ res.status = 201
  /\ Len(res.alerts) = 2 /\ Len(alerts) = 3
  /\ alerts[1].status = JsStr("Acknowledged")
  /\ alerts[3] = res.alerts[2]

\* C18: with the thresholds speedLimit L, lowFuelThreshold F and
\* lowBatteryThreshold B the process was started with, each 80, 15 and 15
\* when not given, a reading gets SpeedViolation iff speed > L, LowFuel iff
\* fuelLevel is present and < F, LowBattery iff batteryLevel is present and < B.
Threshold(setting, default) == IF setting = JsUndefined THEN default ELSE setting.n
ConfiguredKinds(r, settings) ==
  KindIf(Present(r.speed) /\ r.speed.n > Threshold(settings.speedLimit, 80),
         "SPEED_VIOLATION", "High")
    \o KindIf(Present(r.fuelLevel) /\ r.fuelLevel.n < Threshold(settings.lowFuelThreshold, 15),
              "LOW_FUEL", "Medium")
    \o KindIf(Present(r.batteryLevel)
                /\ r.batteryLevel.n < Threshold(settings.lowBatteryThreshold, 15),
              "LOW_BATTERY", "Medium")

C18_ThresholdsConfigured ==
  (res.route = "postTelemetry" /\ res.status = 201)
    => KindsOf(res.alerts) = ConfiguredKinds(res.data, env)

\* C19: totalDistance(window) is the sum over the vehicles of the gains
\* max(0, o[i+1] - o[i]) of the odometers o of the vehicle's in-window
\* readings in timestamp order; a vehicle whose in-window odometers are
\* 100, 150, 120, 200 contributes 130; the store and the ledger stay as
\* they are.
Odometers(vin, window) ==
  LET inside == {r \in Range(telemetryData[vin]) : r.timestamp >= now - window}
  IN [i \in 1..Cardinality(inside) |->
        (CHOOSE r \in inside :
           Cardinality({q \in inside : q.timestamp < r.timestamp}) = i - 1).odometer]
Gain(o, i) == IF o[i + 1] > o[i] THEN o[i + 1] - o[i] ELSE 0
RECURSIVE Gains(_, _)
Gains(o, n) == IF n < 1 THEN 0 ELSE Gain(o, n) + Gains(o, n - 1)
Contribution(vin, window) == Gains(Odometers(vin, window), Len(Odometers(vin, window)) - 1)

C19_TotalDistanceSkipsNegative ==
  [][\A window \in Windows :
       GetTotalDistanceRequest(window) =>
         /\ res'.data = Contribution("VIN1", window) + Contribution("VIN2", window)
         /\ Odometers("VIN1", window) = <<100, 150, 120, 200>>
              => res'.data = 130 + Contribution("VIN2", window)
         /\ telemetryData' = telemetryData
         /\ alerts' = alerts
         /\ vehicles' = vehicles]_vars

\* The distance of the fleet was computed while VIN1's in-window odometers
\* are 100, 150, 120, 200, stored newest first, and VIN2 adds 50.
C19_Witness ==
  /\ res.route = "totalDistance" /\ res.data = 180
  /\ Len(telemetryData["VIN1"]) = 4
  /\ [i \in 1..4 |-> telemetryData["VIN1"][i].odometer] = <<200, 120, 150, 100>>
  /\ telemetryData["VIN1"][1].timestamp = 4

\* C20: activeInactiveCount(window) counts as active the vehicles of the
\* registry with a reading whose timestamp lies in the window, as inactive
\* all its other vehicles, those without any reading too, so the two counts
\* add up to the size of the registry; the store and the ledger stay as
\* they are.
SentWithin(vin, window) ==
  \E r \in Range(telemetryData[vin]) : now - window <= r.timestamp /\ r.timestamp <= now

C20_ActiveInactiveCoverRegistry ==
  [][\A window \in ActivityWindows :
       GetActiveInactiveRequest(window) =>
         /\ res'.data.active = Cardinality({v \in DOMAIN vehicles : SentWithin(v, window)})
         /\ res'.data.inactive = Cardinality({v \in DOMAIN vehicles : ~SentWithin(v, window)})
         /\ res'.data.active + res'.data.inactive = Cardinality(DOMAIN vehicles)
         /\ telemetryData' = telemetryData
         /\ alerts' = alerts
         /\ vehicles' = vehicles]_vars

\* Two vehicles were counted inactive: one never sent a reading, the other
\* sent its last one before the window.
C20_Witness ==
  /\ res.route = "activeInactiveCount"
  /\ res.data = [active |-> 0, inactive |-> 2]
  /\ \E v \in DOMAIN vehicles : telemetryData[v] = <<>>
  /\ \E v \in DOMAIN vehicles : telemetryData[v] # <<>>

\* C21: the VINs with a telemetry array are the VINs of the registry, before
\* and after every step; a VIN that enters the registry gets an empty array,
\* a VIN that leaves it loses its array, and no step, ingest or other, gives
\* an array to a VIN that did not enter the registry in that step.
C21_StoreKeysAreRegistryKeys ==
  [][/\ DOMAIN telemetryData = DOMAIN vehicles
     /\ DOMAIN telemetryData' = DOMAIN vehicles'
     /\ \A vin \in DOMAIN vehicles' \ DOMAIN vehicles : telemetryData'[vin] = <<>>
     /\ \A vin \in DOMAIN vehicles \ DOMAIN vehicles' : ~Has(telemetryData', vin)
     /\ (DOMAIN telemetryData' \ DOMAIN telemetryData)
          \subseteq (DOMAIN vehicles' \ DOMAIN vehicles)
     /\ res'.route \in {"postTelemetry", "postBatch"}
          => DOMAIN telemetryData' = DOMAIN telemetryData]_vars

\* A vehicle that had sent a reading was deleted; the other vehicle is
\* registered and has a reading.
C21_Witness ==
  /\ res.route = "deleteVehicle" /\ res.status = 200
  /\ \E a \in Range(alerts) : ~Has(vehicles, a.vin)
  /\ \E v \in DOMAIN vehicles : telemetryData[v] # <<>>

\* C22: every vehicle of the registry is stored under its own vin, before
\* and after every step; an update whose body names a VIN leaves the vin of
\* the vehicle as it was; and a creation with a VIN of the registry answers
\* 409 and leaves the registry and the telemetry arrays as they were.
KeyedByVin(registry) == \A key \in DOMAIN registry : registry[key].vin = key

C22_VinImmutable ==
  [][/\ KeyedByVin(vehicles)
     /\ KeyedByVin(vehicles')
     /\ \A vin \in VINs, body \in UpdateBodies :
          (res'.route = "updateVehicle" /\ Has(vehicles, vin) /\ PutVehicleRequest(vin, body))
            => /\ res'.status = 200
               /\ DOMAIN vehicles' = DOMAIN vehicles
               /\ vehicles'[vin].vin = vin
               /\ res'.data.vin = vin
               /\ vehicles'[vin].owner = body.owner
     /\ \A vin \in VINs :
          (res'.route = "createVehicle" /\ Has(vehicles, vin) /\ PostVehicleRequest(vin))
            => /\ res'.status = 409 /\ ~res'.success
               /\ vehicles' = vehicles
               /\ telemetryData' = telemetryData]_vars

\* A creation was refused while the one vehicle of the registry has an
\* updated owner and a reading.
C22_Witness ==
  /\ res.route = "createVehicle" /\ res.status = 409
  /\ \E v \in VINs :
       /\ DOMAIN vehicles = {v}
       /\ vehicles[v].owner = "Jane Roe"
       /\ telemetryData[v] # <<>>

\* C23: a deletion removes the telemetry array of the vehicle, so a reading
\* it held is in no array afterwards: every step keeps or drops the readings
\* of an array and adds only readings with an identifier not yet handed out.
\* A creation starts the vehicle with an empty array, for which history is
\* empty with total 0 and latest answers 404 for want of data. While a
\* vehicle is not registered, every ingest, history and latest request for
\* it answers 404 'Vehicle not found' and stores nothing.
StoredFor(store, vin) == IF Has(store, vin) THEN Range(store[vin]) ELSE {}

C23_DeleteDiscardsHistory ==
  [][/\ uuid' >= uuid
     /\ \A v \in VINs :
          /\ \A r \in StoredFor(telemetryData, v) : r.id <= uuid
          /\ \A r \in StoredFor(telemetryData', v) :
               r \in StoredFor(telemetryData, v) \/ r.id > uuid
          /\ (Has(vehicles, v) /\ ~Has(vehicles', v))
               => /\ res' = Response("deleteVehicle", 200, TRUE, "Vehicle deleted successfully")
                  /\ ~Has(telemetryData', v)
          /\ (~Has(vehicles, v) /\ Has(vehicles', v))
               => /\ res'.route = "createVehicle" /\ res'.status = 201
                  /\ telemetryData'[v] = <<>>
                  /\ History(v, NoQuery)'.response.data = <<>>
                  /\ History(v, NoQuery)'.response.total = 0
                  /\ Latest(v)' = NotFound("getLatest", "No telemetry data found for this vehicle")
          /\ (~Has(vehicles, v) /\ res'.route = "postTelemetry"
                /\ \E body \in ReadingBodies : PostTelemetryRequest(v, body))
               => /\ res' = NotFound("postTelemetry", "Vehicle not found")
                  /\ telemetryData' = telemetryData
          /\ (~Has(vehicles, v) /\ res'.route = "getHistory"
                /\ \E q \in [limit : QueryNumbers, offset : QueryNumbers] :
                     GetTelemetryRequest(v, q))
               => /\ res' = NotFound("getHistory", "Vehicle not found")
                  /\ telemetryData' = telemetryData
          /\ (~Has(vehicles, v) /\ res'.route = "getLatest" /\ GetLatestRequest(v))
               => /\ res' = NotFound("getLatest", "Vehicle not found")
                  /\ telemetryData' = telemetryData]_vars

\* A vehicle that an alert of the ledger names, so that it sent a reading,
\* was deleted and created again, sent another reading, and its history was
\* asked for: it holds that one reading, made after the alert.
C23_Witness ==
  /\ res.route = "getHistory" /\ res.status = 200 /\ Len(res.data) = 1
  /\ \E a \in Range(alerts) :
       /\ Has(vehicles, a.vin)
       /\ res.data[1].vin = a.vin
       /\ res.data[1].id > a.id
       /\ telemetryData[a.vin] = res.data

====
